---------------------------- MODULE Spec2Model ----------------------------
(***************************************************************************)
(* Puzzle2048: the GameEngine class (grid movement, merging, scoring,      *)
(* spawning, win/loss detection) as a state machine.                       *)
(*                                                                         *)
(* JavaScript values that matter to the engine are kept apart: a grid cell *)
(* is null (empty), undefined (an array slot that was never written or was *)
(* written from past the end of a shorter array) or a tile object.  A call *)
(* that raises a TypeError is recorded in ret.threw, with the state as the *)
(* call left it at the throw.                                              *)
(***************************************************************************)
EXTENDS Integers, Sequences, FiniteSets, TLC

VARIABLES
    difficulty,     \* this.difficulty
    grid,           \* this.grid: sequence of rows, each a sequence of cells
    score,          \* this.score
    bestScore,      \* this.bestScore
    moves,          \* this.moves
    gameStarted,    \* this.gameStarted
    gameOver,       \* this.gameOver
    status,         \* this.status
    mergeCount,     \* this.mergeCount
    maxTile,        \* this.maxTile
    lastMoveValid,  \* this.lastMoveValid
    localStorage,   \* localStorage['puzzle2048_best_score_<difficulty>'], per difficulty
    ret,            \* what the last call returned (or that it threw)
    compacted,      \* the grid as moveLeft/Right/Up/Down left it, before the spawn
    spawned,        \* what addRandomTile returned in the last move (a tile or null)
    calls,          \* number of calls made so far (bounds the exploration)
    ui,             \* the UIController with its AnimationController and overlay
    demo            \* the DemoAI object and its running playLoop invocations

vars == <<difficulty, grid, score, bestScore, moves, gameStarted, gameOver, status,
          mergeCount, maxTile, lastMoveValid, localStorage, ret, compacted, spawned, calls,
          ui, demo>>

----------------------------------------------------------------------------
(* Bounds of the exploration. *)

\* Calls (move / resetGame) explored from the first state.
MaxCalls == 2

\* Outcomes of Math.random(), in thousandths: 0 picks the first empty cell and
\* the value 2, 950 picks a cell near the end of the list and the value 4.
RandomDraws == {0, 950}

\* Best scores found in localStorage when the engine is constructed.
StoredBest == {0, 20}

----------------------------------------------------------------------------
(* Difficulty configuration. *)

Difficulties == {"easy", "normal", "hard", "expert"}

getDifficultyConfig(d) ==
    CASE d = "easy"   -> [size |-> 4, target |-> 2048]
      [] d = "normal" -> [size |-> 5, target |-> 4096]
      [] d = "hard"   -> [size |-> 6, target |-> 8192]
      [] d = "expert" -> [size |-> 8, target |-> 16384]
      [] OTHER        -> [size |-> 4, target |-> 2048]

gridSize == getDifficultyConfig(difficulty).size

targetTile == getDifficultyConfig(difficulty).target

\* The literal 4 of processRow's Array(4) and resetGame's Array(4).
FixedSize == 4

----------------------------------------------------------------------------
(* Cells. *)

\* F applied to the value of v: v is evaluated once, before F uses it.
Let(v, F(_)) == CHOOSE r \in {F(x) : x \in {v}} : TRUE

Null == [k |-> "null", value |-> 0, row |-> 0, col |-> 0, isNew |-> FALSE, justMerged |-> FALSE]

Undefined == [k |-> "undefined", value |-> 0, row |-> 0, col |-> 0, isNew |-> FALSE, justMerged |-> FALSE]

Tile(v, r, c, n, m) ==
    [k |-> "tile", value |-> v, row |-> r, col |-> c, isNew |-> n, justMerged |-> m]

IsTile(x) == x.k = "tile"

\* JavaScript truthiness of a cell: null and undefined are falsy, objects truthy.
Truthy(x) == x.k = "tile"

\* s[i] of a JavaScript array (0-based); reading past the end gives undefined.
At(s, i) == IF i + 1 \in DOMAIN s THEN s[i + 1] ELSE Undefined

\* [...s].reverse()
Reverse(s) == [i \in 1..Len(s) |-> s[Len(s) + 1 - i]]

\* Array(n).fill(null)
NullRow(n) == [i \in 1..n |-> Null]

\* Array(n).fill().map(() => Array(m).fill(null))
NullGrid(n, m) == [r \in 1..n |-> NullRow(m)]

\* this.grid[r] exists
HasRow(g, r) == r + 1 \in DOMAIN g

\* this.grid[r][c], for an existing row r
Cell(g, r, c) == At(g[r + 1], c)

\* this.grid[r][c] = x  (extends the row when c is past its end)
SetCell(g, r, c, x) ==
    LET old == g[r + 1]
        n == IF c + 1 > Len(old) THEN c + 1 ELSE Len(old)
    IN [g EXCEPT ![r + 1] = [i \in 1..n |-> IF i = c + 1 THEN x ELSE At(old, i - 1)]]


----------------------------------------------------------------------------
(* updateMaxTile, clearGrid, addRandomTile. *)

\* updateMaxTile(value): the new this.maxTile
updateMaxTile(mt, value) == IF value > mt THEN value ELSE mt

\* All rows 0..n-1 of the grid exist (a loop over them raises no TypeError).
RowsExist(g, n) == \A r \in 0..(n - 1) : HasRow(g, r)

\* A row with its columns 0..n-1 set to null (longer when it was longer).
ClearedRow(old, n) ==
    [i \in 1..(IF Len(old) > n THEN Len(old) ELSE n) |-> IF i <= n THEN Null ELSE old[i]]

\* clearGrid(): every cell of rows 0..n-1, columns 0..n-1 is set to null, row by
\* row; this.grid[row][col] of a missing row raises a TypeError, after the rows
\* before it were cleared.
clearGrid(g, n) ==
    [grid |-> [i \in 1..Len(g) |-> IF i <= n THEN ClearedRow(g[i], n) ELSE g[i]],
     threw |-> ~RowsExist(g, n)]

\* emptyCells without the test for null: every cell is a candidate.
emptyCellsUntested(g, n) ==
    [idx \in 1..(n * n) |-> <<(idx - 1) \div n, (idx - 1) % n>>]

\* The empty cells (=== null) in row-major order, as pairs <<row, col>>.
emptyCells(g, n) ==
    SelectSeq([idx \in 1..(n * n) |-> <<(idx - 1) \div n, (idx - 1) % n>>],
              LAMBDA rc : Cell(g, rc[1], rc[2]) = Null)

\* Math.floor(Math.random() * length), Math.random() given in thousandths.
randomIndex(r1, length) == (r1 * length) \div 1000

\* Math.random() < 0.9 ? 2 : 4
randomValue(r2) == IF r2 < 900 THEN 2 ELSE 4

\* The tile object addRandomTile builds for cell rc.
NewTile(rc, value, isNewFlag) == Tile(value, rc[1], rc[2], isNewFlag, FALSE)

\* addRandomTile() (isNewFlag = TRUE) and addRandomTileForDemo() (FALSE):
\* r1, r2 are the two outcomes of Math.random().
addRandomTile(g, n, mt, r1, r2, isNewFlag) ==
    IF ~RowsExist(g, n)
    THEN [grid |-> g, tile |-> Null, maxTile |-> mt, threw |-> TRUE]
    ELSE Let(emptyCells(g, n), LAMBDA cells :
         IF Len(cells) = 0
         THEN [grid |-> g, tile |-> Null, maxTile |-> mt, threw |-> FALSE]
         ELSE Let(NewTile(cells[randomIndex(r1, Len(cells)) + 1], randomValue(r2), isNewFlag),
              LAMBDA tile :
                 [grid |-> SetCell(g, tile.row, tile.col, tile), tile |-> tile,
                  maxTile |-> updateMaxTile(mt, tile.value), threw |-> FALSE]))

----------------------------------------------------------------------------
(* processRow. *)

\* row.filter(tile => tile !== null): undefined entries are kept.
FilterNotNull(row) == SelectSeq(row, LAMBDA x : x # Null)

\* newRow[idx] = x on a JavaScript array (idx is at most its length).
Put(newRow, idx, x) ==
    IF idx + 1 > Len(newRow) THEN Append(newRow, x)
    ELSE [newRow EXCEPT ![idx + 1] = x]

\* The condition of the if at the head of the loop body.
MergeCondition(tiles, i) ==
    /\ i < Len(tiles) - 1
    /\ Truthy(At(tiles, i + 1))
    /\ At(tiles, i).value = At(tiles, i + 1).value
    /\ ~At(tiles, i).justMerged
    /\ ~At(tiles, i + 1).justMerged

\* MergeStep that adds the absorbed tile's value twice (three times the value).
MergeStepTripled(tiles, st) ==
    Let(Tile(At(tiles, st.i).value * 3, At(tiles, st.i).row, st.targetIndex, FALSE, TRUE),
    LAMBDA mergedTile :
       [st EXCEPT !.newRow = Put(st.newRow, st.targetIndex, mergedTile),
                  !.rowScore = st.rowScore + mergedTile.value,
                  !.rowMerged = Append(st.rowMerged, mergedTile),
                  !.maxTile = updateMaxTile(st.maxTile, mergedTile.value),
                  !.i = st.i + 2,
                  !.targetIndex = st.targetIndex + 1,
                  !.rowMoved = TRUE])

\* MergeStep that scores the value of one source tile instead of the merged
\* value.
MergeStepHalfScore(tiles, st) ==
    Let(Tile(At(tiles, st.i).value * 2, At(tiles, st.i).row, st.targetIndex, FALSE, TRUE),
    LAMBDA mergedTile :
       [st EXCEPT !.newRow = Put(st.newRow, st.targetIndex, mergedTile),
                  !.rowScore = st.rowScore + At(tiles, st.i).value,
                  !.rowMerged = Append(st.rowMerged, mergedTile),
                  !.maxTile = updateMaxTile(st.maxTile, mergedTile.value),
                  !.i = st.i + 2,
                  !.targetIndex = st.targetIndex + 1,
                  !.rowMoved = TRUE])

\* MergeStep that keeps the value of the absorbing tile instead of doubling it.
MergeStepNoDouble(tiles, st) ==
    Let(Tile(At(tiles, st.i).value, At(tiles, st.i).row, st.targetIndex, FALSE, TRUE),
    LAMBDA mergedTile :
       [st EXCEPT !.newRow = Put(st.newRow, st.targetIndex, mergedTile),
                  !.rowScore = st.rowScore + mergedTile.value,
                  !.rowMerged = Append(st.rowMerged, mergedTile),
                  !.maxTile = updateMaxTile(st.maxTile, mergedTile.value),
                  !.i = st.i + 2,
                  !.targetIndex = st.targetIndex + 1,
                  !.rowMoved = TRUE])

\* MergeStep without the skip over the second tile of the pair (i++ instead of
\* i += 2): the absorbed tile is looked at again.
MergeStepNoSkip(tiles, st) ==
    Let(Tile(At(tiles, st.i).value * 2, At(tiles, st.i).row, st.targetIndex, FALSE, TRUE),
    LAMBDA mergedTile :
       [st EXCEPT !.newRow = Put(st.newRow, st.targetIndex, mergedTile),
                  !.rowScore = st.rowScore + mergedTile.value,
                  !.rowMerged = Append(st.rowMerged, mergedTile),
                  !.maxTile = updateMaxTile(st.maxTile, mergedTile.value),
                  !.i = st.i + 1,
                  !.targetIndex = st.targetIndex + 1,
                  !.rowMoved = TRUE])

\* The merge branch: one merged tile at targetIndex, the next tile skipped.
MergeStep(tiles, st) ==
    Let(Tile(At(tiles, st.i).value * 2, At(tiles, st.i).row, st.targetIndex, FALSE, TRUE),
    LAMBDA mergedTile :
       [st EXCEPT !.newRow = Put(st.newRow, st.targetIndex, mergedTile),
                  !.rowScore = st.rowScore + mergedTile.value,
                  !.rowMerged = Append(st.rowMerged, mergedTile),
                  !.maxTile = updateMaxTile(st.maxTile, mergedTile.value),
                  !.i = st.i + 2,
                  !.targetIndex = st.targetIndex + 1,
                  !.rowMoved = TRUE])

\* rowMoved after a tile whose col field is col was copied to targetIndex.
SlideMoved(rowMoved, targetIndex, col) == rowMoved \/ (targetIndex # col)

\* The else branch: the tile is copied to targetIndex with its flags cleared;
\* rowMoved is set when targetIndex differs from the tile's col field.
SlideStep(tiles, st) ==
    [st EXCEPT !.newRow = Put(st.newRow, st.targetIndex,
                              [At(tiles, st.i) EXCEPT !.col = st.targetIndex,
                                                      !.isNew = FALSE,
                                                      !.justMerged = FALSE]),
               !.rowMoved = SlideMoved(st.rowMoved, st.targetIndex, At(tiles, st.i).col),
               !.i = st.i + 1,
               !.targetIndex = st.targetIndex + 1]

\* The for loop over tiles.  An undefined entry of tiles raises a TypeError:
\* either currentTile.value in the condition (when the next entry is a tile)
\* or currentTile.col in the else branch.
RECURSIVE ProcessLoop(_, _)
ProcessLoop(tiles, st) ==
    IF st.i >= Len(tiles) THEN st
    ELSE IF ~IsTile(At(tiles, st.i)) THEN [st EXCEPT !.threw = TRUE]
    ELSE IF MergeCondition(tiles, st.i)
         THEN Let(MergeStep(tiles, st), LAMBDA s : ProcessLoop(tiles, s))
    ELSE Let(SlideStep(tiles, st), LAMBDA s : ProcessLoop(tiles, s))

\* The comparison of one position of the original row with newRow.
CellDiffers(a, b) ==
    \/ (a = Null) # (b = Null)
    \/ (Truthy(a) /\ Truthy(b) /\ a.value # b.value)

\* The final comparison loop over i < this.gridSize.
RowDiffers(row, newRow, n) ==
    \E i \in 0..(n - 1) : CellDiffers(At(row, i), At(newRow, i))

\* The locals of processRow before its loop.
ProcessStart(mt) ==
    [i |-> 0, targetIndex |-> 0, newRow |-> NullRow(FixedSize),
     rowMoved |-> FALSE, rowScore |-> 0, rowMerged |-> <<>>,
     maxTile |-> mt, threw |-> FALSE]

\* processRow(row) with this.gridSize = n and this.maxTile = mt.
processRow(row, n, mt) ==
    Let(FilterNotNull(row), LAMBDA tiles :
    Let(ProcessLoop(tiles, ProcessStart(mt)), LAMBDA st :
       [newRow |-> st.newRow,
        rowMoved |-> st.rowMoved \/ (~st.threw /\ RowDiffers(row, st.newRow, n)),
        rowScore |-> st.rowScore,
        rowMerged |-> st.rowMerged,
        maxTile |-> st.maxTile,
        threw |-> st.threw]))

----------------------------------------------------------------------------
(* getRow / setRow / getColumn / setColumn and the four direction routines. *)

Directions == {"left", "right", "up", "down"}

\* A direction string outside the four the switch knows.
Malformed == "diagonal"

Horizontal(d) == d \in {"left", "right"}

Reversing(d) == d \in {"right", "down"}

\* getRow(rowIndex): [...this.grid[rowIndex]]
getRow(g, rowIndex) == g[rowIndex + 1]

\* getColumn(colIndex)
getColumn(g, colIndex, n) == [i \in 1..n |-> Cell(g, i - 1, colIndex)]

\* setRow / setColumn storing the tile without writing its row and col.
StoredAsIs(x, row, col) == x

\* What setRow / setColumn store for an entry of tiles: a truthy entry with its
\* row and col rewritten, null or undefined as it is.
Stored(x, row, col) == IF Truthy(x) THEN [x EXCEPT !.row = row, !.col = col] ELSE x

\* setRow(rowIndex, tiles): every column col < n of the row receives tiles[col]
\* (undefined past the end of tiles).
setRow(g, rowIndex, tiles, n) ==
    [g EXCEPT ![rowIndex + 1] =
        [i \in 1..(IF Len(g[rowIndex + 1]) > n THEN Len(g[rowIndex + 1]) ELSE n) |->
            IF i > n THEN g[rowIndex + 1][i]
            ELSE Stored(At(tiles, i - 1), rowIndex, i - 1)]]

\* setColumn(colIndex, tiles): every row < n receives tiles[row] in that column.
setColumn(g, colIndex, tiles, n) ==
    [r \in 1..Len(g) |->
        IF r > n THEN g[r]
        ELSE [i \in 1..(IF Len(g[r]) > colIndex + 1 THEN Len(g[r]) ELSE colIndex + 1) |->
                IF i = colIndex + 1 THEN Stored(At(tiles, r - 1), r - 1, colIndex)
                ELSE At(g[r], i - 1)]]

\* The array handed to processRow for line k: the row or column itself for
\* left / up, its reversed copy for right / down.
LineInput(g, d, k, n) ==
    Let(IF Horizontal(d) THEN getRow(g, k) ELSE getColumn(g, k, n), LAMBDA line :
        IF Reversing(d) THEN Reverse(line) ELSE line)

\* The array handed to setRow / setColumn: newRow, or newRow.reverse().
LineOutput(newRow, d) == IF Reversing(d) THEN Reverse(newRow) ELSE newRow

\* A tile of rowMerged as the caller sees it after setRow / setColumn rewrote its
\* row and col (the object in rowMerged is the object stored in the grid).
MergedAsStored(m, newRow, d, k) ==
    Let(IF Reversing(d) THEN Len(newRow) - 1 - m.col ELSE m.col, LAMBDA pos :
        IF Horizontal(d) THEN [m EXCEPT !.row = k, !.col = pos]
        ELSE [m EXCEPT !.row = pos, !.col = k])

\* The grid after the if (rowMoved) of one loop iteration.
Placed(g, d, k, n, pr) ==
    IF ~pr.rowMoved THEN g
    ELSE IF Horizontal(d) THEN setRow(g, k, LineOutput(pr.newRow, d), n)
    ELSE Let(LineOutput(pr.newRow, d), LAMBDA out : setColumn(g, k, out, n))

\* One iteration of the loop of moveLeft / moveRight / moveUp / moveDown.
MoveLine(acc, d, k, n) ==
    Let(LineInput(acc.grid, d, k, n), LAMBDA line :
    Let(processRow(line, n, acc.maxTile), LAMBDA pr :
       IF pr.threw
       THEN [acc EXCEPT !.threw = TRUE, !.maxTile = pr.maxTile]
       ELSE [grid |-> Placed(acc.grid, d, k, n, pr),
             moved |-> acc.moved \/ pr.rowMoved,
             scoreIncrease |-> acc.scoreIncrease + pr.rowScore,
             mergeOccurred |-> acc.mergeOccurred \/ Len(pr.rowMerged) > 0,
             mergedTiles |-> acc.mergedTiles \o
                 [j \in 1..Len(pr.rowMerged) |->
                     MergedAsStored(pr.rowMerged[j], pr.newRow, d, k)],
             maxTile |-> pr.maxTile,
             threw |-> FALSE]))

RECURSIVE MoveLines(_, _, _, _)
MoveLines(acc, d, k, n) ==
    IF k >= n \/ acc.threw THEN acc
    ELSE Let(MoveLine(acc, d, k, n), LAMBDA a : MoveLines(a, d, k + 1, n))

\* The locals of a direction routine before its loop.
MoveStart(g, mt) ==
    [grid |-> g, moved |-> FALSE, scoreIncrease |-> 0, mergeOccurred |-> FALSE,
     mergedTiles |-> <<>>, maxTile |-> mt, threw |-> FALSE]

moveLeft(g, n, mt) == MoveLines(MoveStart(g, mt), "left", 0, n)

moveRight(g, n, mt) == MoveLines(MoveStart(g, mt), "right", 0, n)

moveUp(g, n, mt) == MoveLines(MoveStart(g, mt), "up", 0, n)

moveDown(g, n, mt) == MoveLines(MoveStart(g, mt), "down", 0, n)

----------------------------------------------------------------------------
(* clearPreviousFlags, checkVictory, checkGameOver. *)

\* clearPreviousFlags that resets isNew only.
clearPreviousFlagsKeepMerged(g, n) ==
    [grid |-> [r \in 1..Len(g) |->
                 IF r > n THEN g[r]
                 ELSE [i \in 1..Len(g[r]) |->
                         IF i <= n /\ Truthy(g[r][i])
                         THEN [g[r][i] EXCEPT !.isNew = FALSE]
                         ELSE g[r][i]]],
     threw |-> ~RowsExist(g, n)]

\* clearPreviousFlags(): row by row; a missing row raises a TypeError after the
\* rows before it were done.
clearPreviousFlags(g, n) ==
    [grid |-> [r \in 1..Len(g) |->
                 IF r > n THEN g[r]
                 ELSE [i \in 1..Len(g[r]) |->
                         IF i <= n /\ Truthy(g[r][i])
                         THEN [g[r][i] EXCEPT !.isNew = FALSE, !.justMerged = FALSE]
                         ELSE g[r][i]]],
     threw |-> ~RowsExist(g, n)]

\* checkVictory with > in place of >=.
checkVictoryAbove(g, n, target) ==
    \E r \in 0..(n - 1), c \in 0..(n - 1) :
        Truthy(Cell(g, r, c)) /\ Cell(g, r, c).value > target

\* checkVictory() (and hasWon()); called only when all rows exist.
checkVictory(g, n, target) ==
    \E r \in 0..(n - 1), c \in 0..(n - 1) :
        Truthy(Cell(g, r, c)) /\ Cell(g, r, c).value >= target

\* The first loop of checkGameOver: some cell is === null.
HasNullCell(g, n) == \E r \in 0..(n - 1), c \in 0..(n - 1) : Cell(g, r, c) = Null

\* The comparison with one neighbour in the second loop of checkGameOver:
\* "pair" when it returns false there, "throw" when currentTile.value is read
\* of an undefined currentTile, "next" otherwise.
NeighbourCheck(inside, currentTile, neighbour) ==
    IF ~(inside /\ Truthy(neighbour)) THEN "next"
    ELSE IF ~IsTile(currentTile) THEN "throw"
    ELSE IF currentTile.value = neighbour.value THEN "pair"
    ELSE "next"

\* The loop body with the right neighbour only.
PairCheckRightOnly(g, n, idx) ==
    Let(<<idx \div n, idx % n>>, LAMBDA rc :
        NeighbourCheck(rc[2] < n - 1, Cell(g, rc[1], rc[2]), Cell(g, rc[1], rc[2] + 1)))

\* The body of the second loop at cell idx (row-major): right neighbour first,
\* then the one below.
PairCheckAt(g, n, idx) ==
    Let(<<idx \div n, idx % n>>, LAMBDA rc :
    Let(NeighbourCheck(rc[2] < n - 1, Cell(g, rc[1], rc[2]), Cell(g, rc[1], rc[2] + 1)),
    LAMBDA right :
        IF right # "next" THEN right
        ELSE IF rc[1] < n - 1
             THEN NeighbourCheck(TRUE, Cell(g, rc[1], rc[2]), Cell(g, rc[1] + 1, rc[2]))
        ELSE "next"))

\* The outcome of the second loop: the first cell whose check is not "next".
PairScan(g, n) ==
    Let([idx \in 0..(n * n - 1) |-> PairCheckAt(g, n, idx)], LAMBDA checks :
        IF \A idx \in DOMAIN checks : checks[idx] = "next" THEN "none"
        ELSE checks[CHOOSE idx \in DOMAIN checks :
                        /\ checks[idx] # "next"
                        /\ \A j \in DOMAIN checks : j < idx => checks[j] = "next"])

\* checkGameOver(): [over, threw]
checkGameOver(g, n) ==
    IF HasNullCell(g, n) THEN [over |-> FALSE, threw |-> FALSE]
    ELSE Let(PairScan(g, n), LAMBDA scan :
             [over |-> scan = "none", threw |-> scan = "throw"])

----------------------------------------------------------------------------
(* The engine object, its methods move and resetGame, and its constructor. *)

\* The fields of `this` as one record.
Engine ==
    [difficulty |-> difficulty, grid |-> grid, score |-> score, bestScore |-> bestScore,
     moves |-> moves, gameStarted |-> gameStarted, gameOver |-> gameOver,
     status |-> status, mergeCount |-> mergeCount, maxTile |-> maxTile,
     lastMoveValid |-> lastMoveValid]

\* The object a call of move returns; threw = TRUE when it raised instead.
Returned(d, threw, moved, scoreIncrease, mergeOccurred, mergedTiles) ==
    [op |-> "move", dir |-> d, threw |-> threw, moved |-> moved,
     scoreIncrease |-> scoreIncrease, mergeOccurred |-> mergeOccurred,
     mergedTiles |-> mergedTiles]

NotMoved(d) == Returned(d, FALSE, FALSE, 0, FALSE, <<>>)

Threw(d) == Returned(d, TRUE, FALSE, 0, FALSE, <<>>)

\* The switch of move: the direction routine for a known direction.
Dispatch(g, n, mt, direction) ==
    CASE direction = "left"  -> moveLeft(g, n, mt)
      [] direction = "right" -> moveRight(g, n, mt)
      [] direction = "up"    -> moveUp(g, n, mt)
      [] direction = "down"  -> moveDown(g, n, mt)

\* bestScore following the score of every accepted move.
BestOverwritten(newScore, best) == newScore

\* this.bestScore after the if (this.score > this.bestScore) of move
BestAfter(newScore, best) == IF newScore > best THEN newScore ELSE best

\* mergeCount bumped by every accepted move.
MergeCountAlways(mc, mergeOccurred) == mc + 1

\* this.mergeCount after the if (mergeOccurred) of move
MergeCountAfter(mc, mergeOccurred) == IF mergeOccurred THEN mc + 1 ELSE mc

\* this.moves after this.moves++
MovesAfter(m) == m + 1

\* The win check evaluated after the loss check, so that a lost board holding
\* the target tile ends won.
StatusAfterWinLast(e, won, over) ==
    IF over.threw THEN [e EXCEPT !.status = IF won THEN "won" ELSE e.status]
    ELSE IF over.over
    THEN [e EXCEPT !.gameOver = TRUE, !.status = IF won THEN "won" ELSE "lost"]
    ELSE [e EXCEPT !.status = IF won THEN "won" ELSE e.status]

\* The loss check writing the status either way, over the result of the win
\* check.
StatusAfterOverwritten(e, won, over) ==
    IF over.threw THEN [e EXCEPT !.status = IF won THEN "won" ELSE e.status]
    ELSE IF over.over THEN [e EXCEPT !.gameOver = TRUE, !.status = "lost"]
    ELSE [e EXCEPT !.status = "playing"]

\* this.status and this.gameOver after the win check and the loss check.
StatusAfter(e, won, over) ==
    IF over.threw THEN [e EXCEPT !.status = IF won THEN "won" ELSE e.status]
    ELSE IF over.over THEN [e EXCEPT !.gameOver = TRUE, !.status = "lost"]
    ELSE [e EXCEPT !.status = IF won THEN "won" ELSE e.status]

\* The spawn of move: addRandomTile() or, for updateUI = false, addRandomTileForDemo().
SpawnAfterMove(g, n, mt, r1, r2, updateUI) == addRandomTile(g, n, mt, r1, r2, updateUI)

\* The if (moved) branch of move, from the counters to the loss check.
Commit(e, ls, direction, updateUI, mv, r1, r2) ==
    Let(getDifficultyConfig(e.difficulty), LAMBDA cfg :
    Let(SpawnAfterMove(mv.grid, cfg.size, mv.maxTile, r1, r2, updateUI), LAMBDA sp :
    Let(checkGameOver(sp.grid, cfg.size), LAMBDA over :
       [e |-> StatusAfter(
                 [e EXCEPT !.grid = sp.grid,
                           !.score = e.score + mv.scoreIncrease,
                           !.moves = MovesAfter(e.moves),
                           !.lastMoveValid = TRUE,
                           !.mergeCount = MergeCountAfter(e.mergeCount, mv.mergeOccurred),
                           !.bestScore = BestAfter(e.score + mv.scoreIncrease, e.bestScore),
                           !.maxTile = sp.maxTile],
                 checkVictory(sp.grid, cfg.size, cfg.target), over),
        ls |-> IF e.score + mv.scoreIncrease > e.bestScore
               THEN [ls EXCEPT ![e.difficulty] = e.score + mv.scoreIncrease]
               ELSE ls,
        ret |-> IF over.threw THEN Threw(direction)
                ELSE Returned(direction, FALSE, TRUE, mv.scoreIncrease,
                              mv.mergeOccurred, mv.mergedTiles),
        compacted |-> mv.grid,
        spawned |-> sp.tile])))

\* What move does after the direction routine returned mv.
AfterDispatch(e, ls, direction, updateUI, mv, r1, r2) ==
    IF mv.threw
    THEN [e |-> [e EXCEPT !.grid = mv.grid, !.maxTile = mv.maxTile],
          ls |-> ls, ret |-> Threw(direction),
          compacted |-> mv.grid, spawned |-> Null]
    ELSE IF mv.moved
    THEN Commit(e, ls, direction, updateUI, mv, r1, r2)
    ELSE [e |-> [e EXCEPT !.grid = mv.grid, !.maxTile = mv.maxTile,
                          !.lastMoveValid = FALSE],
          ls |-> ls,
          ret |-> Returned(direction, FALSE, FALSE, mv.scoreIncrease,
                           mv.mergeOccurred, mv.mergedTiles),
          compacted |-> mv.grid, spawned |-> Null]

\* move without the early return.
NeverBlocked(e) == FALSE

\* The early return taken on a won game as well.
BlockedWhenWon(e) == e.gameOver \/ e.status = "won"

\* The guard at the head of move: a finished game accepts no move.
Blocked(e) == e.gameOver

\* move(direction, updateUI) on engine e with localStorage ls; r1, r2 are the
\* outcomes of Math.random() in the spawn.
move(e, ls, direction, updateUI, r1, r2) ==
    IF Blocked(e)
    THEN [e |-> e, ls |-> ls, ret |-> NotMoved(direction),
          compacted |-> e.grid, spawned |-> Null]
    ELSE
    Let(getDifficultyConfig(e.difficulty).size, LAMBDA n :
    Let(clearPreviousFlags(e.grid, n), LAMBDA cf :
       IF cf.threw
       THEN [e |-> [e EXCEPT !.grid = cf.grid], ls |-> ls, ret |-> Threw(direction),
             compacted |-> cf.grid, spawned |-> Null]
       ELSE IF direction \notin Directions
       THEN [e |-> [e EXCEPT !.grid = cf.grid], ls |-> ls, ret |-> NotMoved(direction),
             compacted |-> cf.grid, spawned |-> Null]
       ELSE Let(Dispatch(cf.grid, n, e.maxTile, direction), LAMBDA mv :
                AfterDispatch(e, ls, direction, updateUI, mv, r1, r2))))

\* initializeGame(): clearGrid, two spawns, gameStarted, status.
initializeGame(e, r1, r2, r3, r4) ==
    Let(getDifficultyConfig(e.difficulty).size, LAMBDA n :
    Let(clearGrid(e.grid, n), LAMBDA cg :
       IF cg.threw
       THEN [e |-> [e EXCEPT !.grid = cg.grid], threw |-> TRUE]
       ELSE
       Let(addRandomTile(cg.grid, n, e.maxTile, r1, r2, TRUE), LAMBDA s1 :
       Let(addRandomTile(s1.grid, n, s1.maxTile, r3, r4, TRUE), LAMBDA s2 :
           [e |-> [e EXCEPT !.grid = s2.grid, !.maxTile = s2.maxTile,
                            !.gameStarted = TRUE, !.status = "playing"],
            threw |-> FALSE]))))

\* The grid resetGame allocates before initializeGame (n = this.gridSize).
ResetGrid(n) == NullGrid(FixedSize, FixedSize)

\* resetGame()
resetGame(e, r1, r2, r3, r4) ==
    initializeGame(
        [e EXCEPT !.grid = ResetGrid(getDifficultyConfig(e.difficulty).size),
                  !.score = 0, !.moves = 0, !.gameStarted = FALSE, !.gameOver = FALSE,
                  !.status = "playing", !.mergeCount = 0, !.maxTile = 0,
                  !.lastMoveValid = FALSE],
        r1, r2, r3, r4)

\* The grid the constructor allocates.
ConstructGrid(n) == NullGrid(n, n)

\* new GameEngine(d) with best score `best` stored for d.
construct(d, best, r1, r2, r3, r4) ==
    initializeGame(
        [difficulty |-> d, grid |-> ConstructGrid(getDifficultyConfig(d).size),
         score |-> 0, bestScore |-> best,
         moves |-> 0, gameStarted |-> FALSE, gameOver |-> FALSE, status |-> "playing",
         mergeCount |-> 0, maxTile |-> 0, lastMoveValid |-> FALSE],
        r1, r2, r3, r4)

----------------------------------------------------------------------------
(* The objects around the engine, as constructed. *)

\* new UIController(game): isAnimating, the awaits moveAndUpdate is suspended at
\* (pending: "none", "moved" for the animations of an accepted move, "shake"
\* for a rejected one), the animateVictory promises not yet resolved, the
\* overlay shown, and the victory fanfares played since the game was started.
UIConstructed ==
    [isAnimating |-> FALSE, pending |-> "none", victory |-> 0, overlay |-> "none",
     fanfares |-> 0]

\* new DemoAI(gameEngine); demo-ai.js declares the class twice, declaration
\* says which one is in force; loops counts the playLoop() calls that have
\* not returned.
DemoConstructed(declaration) ==
    [declaration |-> declaration, isRunning |-> FALSE, isPaused |-> FALSE, loops |-> 0]

----------------------------------------------------------------------------
(* The state machine. *)

\* The variables take the fields of engine record e.
Becomes(e) ==
    /\ difficulty' = e.difficulty
    /\ grid' = e.grid
    /\ score' = e.score
    /\ bestScore' = e.bestScore
    /\ moves' = e.moves
    /\ gameStarted' = e.gameStarted
    /\ gameOver' = e.gameOver
    /\ status' = e.status
    /\ mergeCount' = e.mergeCount
    /\ maxTile' = e.maxTile
    /\ lastMoveValid' = e.lastMoveValid

Starts(e) ==
    /\ difficulty = e.difficulty
    /\ grid = e.grid
    /\ score = e.score
    /\ bestScore = e.bestScore
    /\ moves = e.moves
    /\ gameStarted = e.gameStarted
    /\ gameOver = e.gameOver
    /\ status = e.status
    /\ mergeCount = e.mergeCount
    /\ maxTile = e.maxTile
    /\ lastMoveValid = e.lastMoveValid

\* ret before any call of move or resetGame.
Constructed ==
    [op |-> "new", dir |-> "", threw |-> FALSE, moved |-> FALSE,
     scoreIncrease |-> 0, mergeOccurred |-> FALSE, mergedTiles |-> <<>>]

\* State after new GameEngine(d).
Init ==
    \E d \in Difficulties, best \in StoredBest, r1, r2, r3, r4 \in RandomDraws :
      \E c \in {construct(d, best, r1, r2, r3, r4)} :
        /\ Starts(c.e)
        /\ localStorage = [x \in Difficulties |-> IF x = d THEN best ELSE 0]
        /\ ret = Constructed
        /\ compacted = c.e.grid
        /\ spawned = Null
        /\ calls = 0
        /\ ui = UIConstructed
        /\ demo = DemoConstructed(1)

\* game.move(direction) as the UI calls it (updateUI defaults to true).
Move ==
    /\ calls < MaxCalls
    /\ \E direction \in Directions \cup {Malformed}, r1, r2 \in RandomDraws :
         \E m \in {move(Engine, localStorage, direction, TRUE, r1, r2)} :
           /\ Becomes(m.e)
           /\ localStorage' = m.ls
           /\ ret' = m.ret
           /\ compacted' = m.compacted
           /\ spawned' = m.spawned
    /\ calls' = calls + 1
    /\ UNCHANGED <<ui, demo>>

\* game.resetGame()
ResetGame ==
    /\ calls < MaxCalls
    /\ \E r1, r2, r3, r4 \in RandomDraws :
         \E m \in {resetGame(Engine, r1, r2, r3, r4)} :
           /\ Becomes(m.e)
           /\ ret' = [Constructed EXCEPT !.op = "reset", !.threw = m.threw]
           /\ compacted' = m.e.grid
    /\ spawned' = Null
    /\ calls' = calls + 1
    /\ UNCHANGED <<localStorage, ui, demo>>

Next == Move \/ ResetGame

Spec == Init /\ [][Next]_vars

----------------------------------------------------------------------------
(* Play continued from a mid-game position of the easy difficulty (the only    *)
(* one in which more than one move completes): a 4 x 4 board as a rejected     *)
(* move leaves it (every flag cleared, lastMoveValid false, game not over),    *)
(* with the counters of a game whose spawns were all 2.                        *)

\* Rows of the dense boards (0 is an empty cell).
DenseRows == {<<2, 4, 2, 4>>, <<4, 2, 4, 2>>}

\* Last rows of the dense boards.
LastRows ==
    {<<4, 2, 4, 0>>, <<4, 2, 4, 2>>, <<2, 4, 2, 4>>,
     <<1024, 1024, 2, 4>>, <<1024, 1024, 0, 0>>}

\* Rows of the sparse boards.
SparseRows == {<<2, 2, 2, 2>>, <<2, 2, 4, 0>>, <<0, 4, 4, 8>>}

EmptyRow == <<0, 0, 0, 0>>

\* A board on which the target of easy has been reached and play continues.
WonBoard == <<<<2048, 2, 0, 0>>, <<2, 2, 0, 0>>, EmptyRow, EmptyRow>>

MidBoards ==
    {<<<<2, 4, 2, 4>>, b, c, d>> : b \in DenseRows, c \in DenseRows, d \in LastRows}
    \cup {<<a, b, EmptyRow, EmptyRow>> : a \in SparseRows, b \in SparseRows}
    \cup {WonBoard}

\* The grid holding the values of board b, every tile at its cell, no flag set.
GridOf(b) ==
    [r \in 1..Len(b) |->
        [c \in 1..Len(b[r]) |->
            IF b[r][c] = 0 THEN Null ELSE Tile(b[r][c], r - 1, c - 1, FALSE, FALSE)]]

\* The tiles of a grid, as the set of its occupied <<row, col>> positions (1-based).
TilePositions(g) == {rc \in (DOMAIN g) \X (1..8) : rc[2] \in DOMAIN g[rc[1]] /\ IsTile(g[rc[1]][rc[2]])}

RECURSIVE SumOver(_, _, _)
SumOver(g, F(_), S) ==
    IF S = {} THEN 0
    ELSE Let(CHOOSE rc \in S : TRUE, LAMBDA rc :
             F(g[rc[1]][rc[2]].value) + SumOver(g, F, S \ {rc}))

\* The sum of all tile values of a grid.
SumOfTiles(g) == SumOver(g, LAMBDA v : v, TilePositions(g))

\* The number of tiles of a grid.
TileCount(g) == Cardinality(TilePositions(g))

RECURSIVE Log2(_)
Log2(v) == IF v <= 1 THEN 0 ELSE 1 + Log2(v \div 2)

\* The score a tile of value v stands for when it was built from 2s only.
ScoreOf(v) == (Log2(v) - 1) * v

\* The largest tile value of a grid (0 for an empty grid).
MaxOfTiles(g) ==
    IF TilePositions(g) = {} THEN 0
    ELSE Let({g[rc[1]][rc[2]].value : rc \in TilePositions(g)}, LAMBDA vs :
             CHOOSE v \in vs : \A w \in vs : w <= v)

\* The engine at a mid-game position with grid g and stored best score best.
MidEngine(g, best) ==
    Let(SumOver(g, ScoreOf, TilePositions(g)), LAMBDA sc :
       [difficulty |-> "easy", grid |-> g, score |-> sc,
        bestScore |-> IF sc > best THEN sc ELSE best,
        moves |-> SumOfTiles(g) \div 2 - 2,
        gameStarted |-> TRUE, gameOver |-> FALSE,
        status |-> IF checkVictory(g, 4, 2048) THEN "won" ELSE "playing",
        mergeCount |-> SumOfTiles(g) \div 2 - TileCount(g),
        maxTile |-> MaxOfTiles(g), lastMoveValid |-> FALSE])

InitMid ==
    \E b \in MidBoards, best \in StoredBest :
      \E e \in {MidEngine(GridOf(b), best)} :
        /\ ~checkGameOver(e.grid, 4).over
        /\ Starts(e)
        /\ localStorage = [x \in Difficulties |-> IF x = "easy" THEN e.bestScore ELSE 0]
        /\ ret = [Constructed EXCEPT !.op = "position"]
        /\ compacted = e.grid
        /\ spawned = Null
        /\ calls = 0
        /\ ui = UIConstructed
        /\ demo = DemoConstructed(1)

SpecMid == InitMid /\ [][Next]_vars

----------------------------------------------------------------------------
(* Vocabulary of the properties. *)

\* The value a cell shows: 0 for a cell that holds no tile.
ValueAt(x) == IF IsTile(x) THEN x.value ELSE 0

\* The occupancy/value pattern of a grid.
Pattern(g) == [r \in DOMAIN g |-> [c \in DOMAIN g[r] |-> ValueAt(g[r][c])]]

\* A grid with every tile's isNew and justMerged false.
Unflagged(g) ==
    [r \in DOMAIN g |-> [c \in DOMAIN g[r] |->
        IF IsTile(g[r][c]) THEN [g[r][c] EXCEPT !.isNew = FALSE, !.justMerged = FALSE]
        ELSE g[r][c]]]

\* The cell of line k at distance j from the edge direction d points to.
CellToward(g, d, k, j, n) ==
    CASE d = "left"  -> Cell(g, k, j)
      [] d = "right" -> Cell(g, k, n - 1 - j)
      [] d = "up"    -> Cell(g, j, k)
      [] d = "down"  -> Cell(g, n - 1 - j, k)

\* The tiles of line k, read from the edge direction d points to.
LineTiles(g, d, k, n) ==
    SelectSeq([j \in 1..n |-> CellToward(g, d, k, j - 1, n)], IsTile)

\* Their values.
LineValues(g, d, k, n) ==
    Let(LineTiles(g, d, k, n), LAMBDA ts : [j \in 1..Len(ts) |-> ts[j].value])

\* out is what a line of values in becomes when its tiles keep their order and
\* each tile is either kept or merged with one equal neighbour, once.
RECURSIVE Explains(_, _)
Explains(in, out) ==
    IF in = <<>> THEN out = <<>>
    ELSE /\ out # <<>>
         /\ \/ Head(out) = Head(in) /\ Explains(Tail(in), Tail(out))
            \/ /\ Len(in) >= 2
               /\ in[1] = in[2]
               /\ Head(out) = 2 * in[1]
               /\ Explains(Tail(Tail(in)), Tail(out))

\* A step in which move(d) with a known direction returned normally.
MoveReturned == ret'.op = "move" /\ ~ret'.threw /\ ret'.dir \in Directions

\* Every cell of the n x n grid holds a tile, and no two neighbours are equal.
FullNoPairs(g, n) ==
    /\ RowsExist(g, n)
    /\ \A r \in 0..(n - 1), c \in 0..(n - 1) : IsTile(Cell(g, r, c))
    /\ \A r \in 0..(n - 1), c \in 0..(n - 2) :
          /\ Cell(g, r, c).value # Cell(g, r, c + 1).value
          /\ Cell(g, c, r).value # Cell(g, c + 1, r).value

\* The board mirrored left-to-right, every tile carrying its new column.
MirrorH(g, n) ==
    [r \in 1..n |-> [c \in 1..n |->
        IF IsTile(g[r][n + 1 - c]) THEN [g[r][n + 1 - c] EXCEPT !.col = c - 1]
        ELSE g[r][n + 1 - c]]]

\* The board mirrored top-to-bottom, every tile carrying its new row.
MirrorV(g, n) ==
    [r \in 1..n |-> [c \in 1..n |->
        IF IsTile(g[n + 1 - r][c]) THEN [g[n + 1 - r][c] EXCEPT !.row = r - 1]
        ELSE g[n + 1 - r][c]]]

\* Direction d can change the board: in some line a tile has a cell without a
\* tile between it and the edge d points to, or two tiles that meet are equal.
CanChange(g, d, n) ==
    \E k \in 0..(n - 1) :
        \/ \E i, j \in 0..(n - 1) :
              i < j /\ ~IsTile(CellToward(g, d, k, i, n)) /\ IsTile(CellToward(g, d, k, j, n))
        \/ Let(LineValues(g, d, k, n), LAMBDA vs :
               \E j \in 1..(Len(vs) - 1) : vs[j] = vs[j + 1])

----------------------------------------------------------------------------
(* C1 .. C10 *)

\* C1: move(d) reports moved = true if and only if the occupancy/value pattern
\* of the grid after compaction (before the spawn) differs from the pattern
\* before the move.
C1_MovedIffPatternChanged ==
    [][MoveReturned => (ret'.moved <=> Pattern(compacted') # Pattern(grid))]_vars

\* C2: in every move each line's tiles keep their order and each tile is kept
\* or merged with one equal neighbour exactly once, a merged tile never merging
\* again: v,v,v,v becomes 2v,2v and v,v,2v becomes 2v,2v.
C2_AtMostOneMergePerTile ==
    [][MoveReturned =>
        \A k \in 0..(gridSize - 1) :
            \E in \in {LineValues(grid, ret'.dir, k, gridSize)},
               out \in {LineValues(compacted', ret'.dir, k, gridSize)} :
                /\ Explains(in, out)
                /\ (Len(in) = 4 /\ \A j \in 2..4 : in[j] = in[1])
                      => out = <<2 * in[1], 2 * in[1]>>
                /\ (Len(in) = 3 /\ in[2] = in[1] /\ in[3] = 2 * in[1])
                      => out = <<2 * in[1], 2 * in[1]>>
                /\ (ret'.moved /\ ~ret'.mergeOccurred) => out = in]_vars

\* C2 witness: a move left two tiles of equal value, both merged in this move,
\* next to each other at the head of a line.
C2_Witness ==
    /\ ret.op = "move" /\ ret.moved /\ ~ret.threw
    /\ \E k \in 0..(gridSize - 1) :
         \E ts \in {LineTiles(compacted, ret.dir, k, gridSize)} :
            /\ Len(ts) = 2
            /\ ts[1].justMerged /\ ts[2].justMerged
            /\ ts[1].value = ts[2].value

\* C3: move('right') on a board gives the mirror image of move('left') on the
\* mirrored board, with equal moved and scoreIncrease; likewise down and up.
C3_MirrorSymmetry ==
    (RowsExist(grid, gridSize) /\ ~ret.threw) =>
        \E g \in {Unflagged(grid)} :
          \E R \in {moveRight(g, gridSize, maxTile)},
             L \in {moveLeft(MirrorH(g, gridSize), gridSize, maxTile)},
             D \in {moveDown(g, gridSize, maxTile)},
             U \in {moveUp(MirrorV(g, gridSize), gridSize, maxTile)} :
            (~R.threw /\ ~L.threw /\ ~D.threw /\ ~U.threw) =>
                /\ R.moved = L.moved
                /\ R.scoreIncrease = L.scoreIncrease
                /\ Pattern(R.grid) = Pattern(MirrorH(L.grid, gridSize))
                /\ D.moved = U.moved
                /\ D.scoreIncrease = U.scoreIncrease
                /\ Pattern(D.grid) = Pattern(MirrorV(U.grid, gridSize))

\* C4: when move(d) returns moved = false, the grid after the call is
\* identical to the grid before it in every cell and every tile field.
C4_RejectedMoveTouchesNothing ==
    [][(ret'.op = "move" /\ ~ret'.threw /\ ~ret'.moved) => grid' = grid]_vars

\* What a rejected move does to the grid (C4's divergence): every cell keeps
\* its tile, value, row and col; on a finished game the grid is untouched,
\* otherwise every tile's isNew and justMerged are false after the call.
RejectedMoveClearsFlagsOnly ==
    [][(ret'.op = "move" /\ ~ret'.threw /\ ~ret'.moved) =>
          grid' = (IF gameOver THEN grid ELSE Unflagged(grid))]_vars

\* A rejected first move of a game: the two tiles spawned by the constructor
\* are still the only tiles and have lost their isNew flag.
RejectedFirstMove ==
    /\ ret.op = "move" /\ ret.dir \in Directions /\ ~ret.moved /\ ~ret.threw
    /\ calls = 1
    /\ TileCount(grid) = 2
    /\ \A rc \in TilePositions(grid) : ~grid[rc[1]][rc[2]].isNew

\* C5: a move that returns moved = true adds 1 to moves, scoreIncrease to score,
\* 1 to mergeCount exactly when a merge occurred (however many), and leaves
\* bestScore = max(bestScore, score); a move that returns moved = false leaves
\* score, moves, mergeCount, bestScore, maxTile and status alone and spawns
\* no tile.
C5_MoveAccounting ==
    [][(ret'.op = "move" /\ ~ret'.threw) =>
          IF ret'.moved
          THEN /\ moves' = moves + 1
               /\ score' = score + ret'.scoreIncrease
               /\ mergeCount' = mergeCount + (IF Len(ret'.mergedTiles) > 0 THEN 1 ELSE 0)
               /\ ret'.mergeOccurred = (Len(ret'.mergedTiles) > 0)
               /\ bestScore' = (IF score' > bestScore THEN score' ELSE bestScore)
          ELSE /\ UNCHANGED <<score, moves, mergeCount, bestScore, maxTile, status>>
               /\ spawned' = Null
               /\ Pattern(grid') = Pattern(grid)]_vars

\* C5 witness: a move with several merges has counted as one merge move, and
\* the score is still below the best score.
C5_Witness ==
    /\ ret.op = "move" /\ ret.moved /\ ~ret.threw
    /\ Len(ret.mergedTiles) >= 2
    /\ mergeCount = 1
    /\ score > 0 /\ score < bestScore

\* C6: once status is lost, every later move returns moved = false with
\* scoreIncrease = 0 and leaves grid, score, moves, mergeCount, bestScore and
\* status unchanged; only resetGame leaves status lost.
C6_LostIsTerminal ==
    [][status = "lost" =>
          /\ ret'.op = "move" =>
                /\ ~ret'.threw /\ ~ret'.moved /\ ret'.scoreIncrease = 0
                /\ UNCHANGED <<grid, score, moves, mergeCount, bestScore, status>>
          /\ status' # "lost" => ret'.op = "reset"]_vars

\* C6 witness: a move was attempted on a lost game.
C6_Witness ==
    /\ status = "lost" /\ gameOver
    /\ ret.op = "move" /\ ret.dir \in Directions /\ ~ret.moved

\* C7: after every move that returns moved = true, status is lost exactly when
\* the grid is full with no two equal neighbours; in every reachable state a
\* full grid with no two equal neighbours has status lost.
C7_LostIffFullNoPairs ==
    /\ FullNoPairs(grid, gridSize) => status = "lost"
    /\ (ret.op = "move" /\ ret.moved /\ ~ret.threw) =>
          ((status = "lost") <=> FullNoPairs(grid, gridSize))
    /\ (status = "lost") <=> gameOver

\* C7 witness: the move that filled the grid with no equal neighbours left.
C7_Witness ==
    /\ ret.op = "move" /\ ret.moved
    /\ FullNoPairs(grid, gridSize)
    /\ status = "lost"

\* C8: every move that returns moved = true places exactly one new tile.
C8_MovedMoveSpawnsOne ==
    (ret.op = "move" /\ ret.moved /\ ~ret.threw) =>
        /\ IsTile(spawned)
        /\ TileCount(grid) = TileCount(compacted) + 1

\* C9: new GameEngine(difficulty) and resetGame() both yield an N x N board
\* with exactly two tiles of value 2 or 4, score 0, moves 0, mergeCount 0 and
\* status playing.
C9_FreshBoard ==
    ret.op \in {"new", "reset"} =>
        /\ ~ret.threw
        /\ Len(grid) = gridSize
        /\ \A r \in DOMAIN grid :
              /\ Len(grid[r]) = gridSize
              /\ \A c \in DOMAIN grid[r] : grid[r][c] = Null \/ IsTile(grid[r][c])
        /\ TileCount(grid) = 2
        /\ \A rc \in TilePositions(grid) : grid[rc[1]][rc[2]].value \in {2, 4}
        /\ score = 0 /\ moves = 0 /\ mergeCount = 0
        /\ status = "playing"

\* C10: in status won a move in a direction that can change the board returns
\* moved = true and updates grid, score and counters and spawns a tile.
C10_WonDoesNotBlock ==
    [][(status = "won" /\ ret'.op = "move" /\ ret'.dir \in Directions
            /\ CanChange(grid, ret'.dir, gridSize)) =>
          /\ ~ret'.threw /\ ret'.moved
          /\ Pattern(compacted') # Pattern(grid)
          /\ score' = score + ret'.scoreIncrease
          /\ moves' = moves + 1
          /\ mergeCount' = mergeCount + (IF ret'.mergeOccurred THEN 1 ELSE 0)
          /\ IsTile(spawned') /\ spawned'.isNew
          /\ TileCount(grid') = TileCount(compacted') + 1
          /\ status' \in {"won", "lost"}]_vars

\* C10 witness: a move that merged tiles below the target on a won game.
C10_Witness ==
    /\ status = "won"
    /\ ret.op = "move" /\ ret.moved /\ ret.scoreIncrease > 0
    /\ \A j \in 1..Len(ret.mergedTiles) : ret.mergedTiles[j].value < targetTile
    /\ IsTile(spawned)

\* C11: along any sequence of moves without a reset, once status is won or
\* lost it never returns to playing.
C11_StatusMonotonic ==
    [][(status \in {"won", "lost"} /\ ret'.op = "move") =>
          status' \in {"won", "lost"}]_vars

\* C11 witness: an accepted move without a merge on a game that stays won (the
\* tile that reached the target was there before the move).
C11_Witness ==
    /\ ret.op = "move" /\ ret.moved /\ ~ret.mergeOccurred
    /\ status = "won"
    /\ calls = 2

\* C12: after every move that returns moved = true and does not end in lost,
\* status is won exactly when some tile has a value >= the target tile.
C12_WonIffTargetReached ==
    (ret.op = "move" /\ ret.moved /\ ~ret.threw /\ status # "lost") =>
        ((status = "won") <=> (MaxOfTiles(grid) >= targetTile))

\* C12 witness: the move that merged two tiles into the target tile.
C12_Witness ==
    /\ ret.op = "move" /\ ret.moved /\ status = "won"
    /\ \E j \in 1..Len(ret.mergedTiles) : ret.mergedTiles[j].value = targetTile

\* C13: for any move, the sum of all tile values after the move equals the sum
\* before the move plus the move's scoreIncrease.
C13_SumGrowsByScore ==
    [][(ret'.op = "move" /\ ~ret'.threw) =>
          SumOfTiles(grid') = SumOfTiles(grid) + ret'.scoreIncrease]_vars

\* C13 amended: for any move, compaction leaves the sum of all tile values
\* unchanged, and the sum after the move equals the sum before the move plus
\* the value of the tile spawned in the move (plus 0 when none was spawned).
C13_SumGrowsBySpawn ==
    [][(ret'.op = "move" /\ ~ret'.threw) =>
          /\ SumOfTiles(compacted') = SumOfTiles(grid)
          /\ SumOfTiles(grid') = SumOfTiles(grid)
                + (IF IsTile(spawned') THEN spawned'.value ELSE 0)]_vars

\* C13 witness: a move that merged (scoreIncrease > 0) and spawned a tile; the
\* board gained the spawned value only.
C13_Witness ==
    /\ ret.op = "move" /\ ret.moved /\ ret.scoreIncrease > 0
    /\ IsTile(spawned)
    /\ SumOfTiles(grid) = SumOfTiles(compacted) + spawned.value
    /\ status = "playing"

\* The sum of the values of a sequence of tiles.
RECURSIVE ValueSum(_)
ValueSum(ts) == IF ts = <<>> THEN 0 ELSE Head(ts).value + ValueSum(Tail(ts))

\* The tiles out are what the line of values in becomes when exactly the tiles
\* flagged justMerged come from two equal neighbours and hold twice their
\* value, and every other tile keeps its value.
RECURSIVE ExplainsMerged(_, _)
ExplainsMerged(in, out) ==
    IF out = <<>> THEN in = <<>>
    ELSE IF Head(out).justMerged
    THEN /\ Len(in) >= 2
         /\ in[1] = in[2]
         /\ Head(out).value = 2 * in[1]
         /\ ExplainsMerged(Tail(Tail(in)), Tail(out))
    ELSE /\ in # <<>>
         /\ Head(out).value = in[1]
         /\ ExplainsMerged(Tail(in), Tail(out))

\* The positions of the tiles of a grid flagged justMerged.
MergedPositions(g) == {rc \in TilePositions(g) : g[rc[1]][rc[2]].justMerged}

\* C14: the scoreIncrease of a move is the sum of the values of mergedTiles;
\* mergedTiles has exactly one entry per merge, each the tile the merge left on
\* the board with twice the value of its two equal sources; a row 2,2,_,_
\* moved left becomes 4,_,_,_ with one merged tile of value 4 at column 0.
C14_ScoreIsSumOfMerged ==
    [][MoveReturned =>
          \E mt \in {ret'.mergedTiles} :
            /\ ret'.scoreIncrease = ValueSum(mt)
            /\ ret'.mergeOccurred = (mt # <<>>)
            /\ ~gameOver =>
                 /\ Len(mt) = Cardinality(MergedPositions(compacted'))
                 /\ {<<mt[j].row + 1, mt[j].col + 1>> : j \in 1..Len(mt)}
                       = MergedPositions(compacted')
                 /\ \A j \in 1..Len(mt) :
                       mt[j] = compacted'[mt[j].row + 1][mt[j].col + 1]
                 /\ \A k \in 0..(gridSize - 1) :
                       ExplainsMerged(LineValues(grid, ret'.dir, k, gridSize),
                                      LineTiles(compacted', ret'.dir, k, gridSize))
                 /\ \A r \in DOMAIN grid :
                       (ret'.dir = "left" /\ Pattern(grid)[r] = <<2, 2, 0, 0>>) =>
                          /\ ret'.moved
                          /\ Pattern(compacted')[r] = <<4, 0, 0, 0>>
                          /\ \E j \in 1..Len(mt) :
                                mt[j].value = 4 /\ mt[j].row = r - 1 /\ mt[j].col = 0]_vars

\* C14 witness: the row 2,2,_,_ was moved left, the only merge of the move.
C14_Witness ==
    /\ ret.op = "move" /\ ret.dir = "left" /\ ret.moved
    /\ ret.scoreIncrease = 4
    /\ Len(ret.mergedTiles) = 1
    /\ ret.mergedTiles[1].value = 4 /\ ret.mergedTiles[1].col = 0
    /\ \E r \in DOMAIN compacted : Pattern(compacted)[r] = <<4, 0, 0, 0>>

\* C15: move(d) with a direction outside {left, right, up, down} fails with an
\* exception instead of returning a normal result.
C15_MalformedDirectionThrows ==
    (ret.op = "move" /\ ret.dir \notin Directions) => ret.threw

\* C16: bestScore never decreases under any sequence of moves and resets, and
\* after every move bestScore >= score.
C16_BestScoreMonotonic ==
    [][/\ bestScore' >= bestScore
       /\ ret'.op = "move" => bestScore' >= score']_vars

\* C16 witness: a move raised bestScore above the stored best score and the
\* reset that followed kept it.
C16_Witness ==
    /\ ret.op = "reset" /\ calls = 2
    /\ score = 0
    /\ bestScore > 0 /\ bestScore \notin StoredBest

\* The reference compaction of a line of values read from the edge the move is
\* directed to: order kept, equal neighbours paired greedily from that edge.
RECURSIVE Reference(_)
Reference(in) ==
    IF Len(in) < 2 THEN in
    ELSE IF in[1] = in[2] THEN <<2 * in[1]>> \o Reference(Tail(Tail(in)))
    ELSE <<in[1]>> \o Reference(Tail(in))

\* The tiles of line k of g occupy the cells next to the edge d points to, and
\* every other cell of the line is empty (null).
Packed(g, d, k, n) ==
    \E count \in {Len(LineTiles(g, d, k, n))} :
      \A j \in 0..(n - 1) :
         IF j < count THEN IsTile(CellToward(g, d, k, j, n))
         ELSE CellToward(g, d, k, j, n) = Null

\* C17: for every grid size, every line after move(d) holds the reference
\* compaction of the line before it (v,v,v gives 2v,v from the edge d points
\* to), packed against edge d with the rest of the line empty.
C17_ReferenceCompaction ==
    [][MoveReturned =>
          \A k \in 0..(gridSize - 1) :
             /\ LineValues(compacted', ret'.dir, k, gridSize)
                   = Reference(LineValues(grid, ret'.dir, k, gridSize))
             /\ Packed(compacted', ret'.dir, k, gridSize)]_vars

\* C18: for every grid size the line returned by processRow has exactly N
\* entries, and after any sequence of moves every one of the N x N cells is
\* either null or a tile.
C18_EveryCellNullOrTile ==
    /\ Len(grid) = gridSize
    /\ \A r \in DOMAIN grid :
          /\ Len(grid[r]) = gridSize
          /\ \A c \in DOMAIN grid[r] : grid[r][c] = Null \/ IsTile(grid[r][c])
    /\ \A k \in 0..(gridSize - 1) :
          HasRow(grid, k) =>
             \E pr \in {processRow(getRow(grid, k), gridSize, maxTile)} :
                 ~pr.threw => Len(pr.newRow) = gridSize

\* C19: compaction leaves the sum of all tile values unchanged, every move
\* that returns moved = true raises the sum by exactly the value of the tile
\* spawned in that move (2 or 4), and a reset board has a sum equal to the
\* values of its two spawned tiles.
C19_SumExplainedBySpawns ==
    [][/\ (ret'.op = "move" /\ ~ret'.threw) =>
             /\ SumOfTiles(compacted') = SumOfTiles(grid)
             /\ ret'.moved =>
                   /\ IsTile(spawned') /\ spawned'.value \in {2, 4}
                   /\ SumOfTiles(grid') = SumOfTiles(grid) + spawned'.value
       /\ ret'.op = "reset" =>
             /\ TileCount(grid') = 2
             /\ \A rc \in TilePositions(grid') : grid'[rc[1]][rc[2]].value \in {2, 4}]_vars

\* C20: within a move that changes the board the spawn is made on the
\* committed grid with the counters already updated, the win check and then the
\* loss check follow on the grid after the spawn, and a board that is full
\* with no equal neighbours after the spawn ends lost even when it holds a tile
\* that reaches the target.
C20_SpawnThenWinThenLoss ==
    [][(MoveReturned /\ ret'.moved) =>
          /\ moves' = moves + 1 /\ score' = score + ret'.scoreIncrease
          /\ IF IsTile(spawned')
             THEN /\ Cell(compacted', spawned'.row, spawned'.col) = Null
                  /\ grid' = SetCell(compacted', spawned'.row, spawned'.col, spawned')
             ELSE grid' = compacted'
          /\ gameOver' = FullNoPairs(grid', gridSize)
          /\ status' = IF FullNoPairs(grid', gridSize) THEN "lost"
                       ELSE IF MaxOfTiles(grid') >= targetTile THEN "won"
                       ELSE status]_vars

\* C20 witness: the compaction built the target tile and left one empty cell;
\* the spawn filled it, no equal neighbours remained, and the move ended lost.
C20_Witness ==
    /\ ret.op = "move" /\ ret.moved
    /\ TileCount(compacted) = gridSize * gridSize - 1
    /\ IsTile(spawned)
    /\ MaxOfTiles(grid) >= targetTile
    /\ status = "lost" /\ gameOver

\* a is what addRandomTile leaves of grid g (n rows present): with an empty
\* cell, exactly one tile of value 2 or 4 with isNew set, on a cell that was
\* null, and every other cell as it was; with none, nothing.
SpawnedOne(g, n, a) ==
    /\ ~a.threw
    /\ IF HasNullCell(g, n)
       THEN /\ IsTile(a.tile)
            /\ a.tile.value \in {2, 4}
            /\ a.tile.isNew /\ ~a.tile.justMerged
            /\ Cell(g, a.tile.row, a.tile.col) = Null
            /\ Cell(a.grid, a.tile.row, a.tile.col) = a.tile
            /\ Len(a.grid) = Len(g)
            /\ \A r \in DOMAIN g :
                  /\ Len(a.grid[r]) = Len(g[r])
                  /\ \A c \in DOMAIN g[r] :
                        <<r - 1, c - 1>> # <<a.tile.row, a.tile.col>>
                            => a.grid[r][c] = g[r][c]
       ELSE a.tile = Null /\ a.grid = g

\* C21: addRandomTile on a grid with an empty cell adds exactly one tile, of
\* value 2 or 4 and isNew = true, to a cell that was empty and changes no
\* other cell; on a grid with no empty cell it returns nothing and changes
\* nothing.
C21_SpawnAddsOneTile ==
    RowsExist(grid, gridSize) =>
        \A r1 \in RandomDraws, r2 \in RandomDraws :
            \E a \in {addRandomTile(grid, gridSize, maxTile, r1, r2, TRUE)} :
                SpawnedOne(grid, gridSize, a)

\* C21 witness: a move spawned a 4 on a cell the compaction had left empty.
C21_Witness ==
    /\ ret.op = "move" /\ ret.moved
    /\ IsTile(spawned) /\ spawned.value = 4 /\ spawned.isNew
    /\ Cell(compacted, spawned.row, spawned.col) = Null
    /\ Cell(grid, spawned.row, spawned.col) = spawned
    /\ HasNullCell(grid, gridSize)

\* The positions of the tiles of a grid flagged isNew.
NewPositions(g) == {rc \in TilePositions(g) : g[rc[1]][rc[2]].isNew}

\* C22: after every move that returns moved = true, justMerged is true exactly
\* for the tiles created by a merge in that move and isNew is true exactly for
\* the tile spawned in that move; no tile has both flags, and every flag of an
\* earlier turn is false.
C22_FlagsOfThisTurnOnly ==
    [][(MoveReturned /\ ret'.moved) =>
          /\ MergedPositions(grid')
                = {<<ret'.mergedTiles[j].row + 1, ret'.mergedTiles[j].col + 1>> :
                      j \in 1..Len(ret'.mergedTiles)}
          /\ Cardinality(MergedPositions(grid')) = TileCount(grid) - TileCount(compacted')
          /\ NewPositions(grid')
                = (IF IsTile(spawned') THEN {<<spawned'.row + 1, spawned'.col + 1>>} ELSE {})
          /\ MergedPositions(grid') \cap NewPositions(grid') = {}]_vars

\* C22 witness: the second accepted move of a game merged and spawned; the
\* tile spawned by the first move is still on the board, and only this
\* move's merged tile and spawned tile carry a flag.
C22_Witness ==
    /\ ret.op = "move" /\ ret.moved /\ ret.mergeOccurred
    /\ moves = 2 /\ calls = 2
    /\ IsTile(spawned)
    /\ Cardinality(NewPositions(grid)) = 1
    /\ Cardinality(MergedPositions(grid)) = 1
    /\ TileCount(grid) = 3

\* C23: in every reachable state every tile stored in grid[r][c] has row = r
\* and col = c, and each tile reported in mergedTiles carries the coordinates
\* of the cell it occupies in the grid after the move.
C23_TilesKnowTheirCell ==
    /\ \A rc \in TilePositions(grid) :
          /\ grid[rc[1]][rc[2]].row = rc[1] - 1
          /\ grid[rc[1]][rc[2]].col = rc[2] - 1
    /\ (ret.op = "move" /\ ~ret.threw) =>
          \A j \in 1..Len(ret.mergedTiles) :
             Cell(grid, ret.mergedTiles[j].row, ret.mergedTiles[j].col) = ret.mergedTiles[j]

\* C23 witness: a merge of a move to the right or down, whose line is
\* processed reversed, left its tile at the far edge.
C23_Witness ==
    /\ ret.op = "move" /\ ret.dir \in {"right", "down"} /\ ret.moved
    /\ Len(ret.mergedTiles) >= 1
    /\ \E j \in 1..Len(ret.mergedTiles) :
          IF ret.dir = "right" THEN ret.mergedTiles[j].col = gridSize - 1
          ELSE ret.mergedTiles[j].row = gridSize - 1
    /\ gridSize = 4

\* v is a power of two >= 2.
IsPowerOfTwo(v) == v >= 2 /\ 2 ^ Log2(v) = v

\* C24: in every reachable state every tile's value is a power of two >= 2;
\* spawned tiles are 2 or 4.
C24_ValuesArePowersOfTwo ==
    /\ \A rc \in TilePositions(grid) : IsPowerOfTwo(grid[rc[1]][rc[2]].value)
    /\ IsTile(spawned) => spawned.value \in {2, 4}
    /\ \A j \in 1..Len(ret.mergedTiles) : IsPowerOfTwo(ret.mergedTiles[j].value)

\* C24 witness: a move merged into a tile of value 8 or more and spawned a 4.
C24_Witness ==
    /\ ret.op = "move" /\ ret.moved
    /\ \E j \in 1..Len(ret.mergedTiles) : ret.mergedTiles[j].value >= 8
    /\ IsTile(spawned) /\ spawned.value = 4

----------------------------------------------------------------------------
(* UIController: the keyboard handler, moveAndUpdate and its awaits, the      *)
(* overlay, pause and restart. The engine, localStorage, the UI and the demo  *)
(* player are passed around as one record w.                                  *)

World ==
    [e |-> Engine, ls |-> localStorage, ui |-> ui, demo |-> demo, ret |-> ret,
     compacted |-> compacted, spawned |-> spawned, calls |-> calls]

\* The variables take the fields of w.
Apply(w) ==
    /\ Becomes(w.e)
    /\ localStorage' = w.ls
    /\ ui' = w.ui
    /\ demo' = w.demo
    /\ ret' = w.ret
    /\ compacted' = w.compacted
    /\ spawned' = w.spawned
    /\ calls' = w.calls

\* The keys handleKeyPress tells apart ("a" stands for every unrelated key).
ArrowKeys == {"ArrowLeft", "ArrowRight", "ArrowUp", "ArrowDown"}

Keys == ArrowKeys \cup {"r", "Escape", "a"}

\* The switch of handleKeyPress from arrow key to direction.
DirectionOf(key) ==
    CASE key = "ArrowLeft"  -> "left"
      [] key = "ArrowRight" -> "right"
      [] key = "ArrowUp"    -> "up"
      [] key = "ArrowDown"  -> "down"

\* showOverlay(message, submessage, type)
showOverlay(u, type) == [u EXCEPT !.overlay = type]

\* hideOverlay()
hideOverlay(u) == [u EXCEPT !.overlay = "none"]

\* animationController.getIsAnimating(): runAnimations holds the flag while the
\* tile animations of an accepted move run.
getIsAnimating(u) == u.pending = "moved"

\* moveAndUpdate(direction) up to its first await: the guard, isAnimating,
\* game.move. A move that throws leaves isAnimating set.
moveAndUpdate(w, direction, r1, r2) ==
    IF w.ui.isAnimating \/ getIsAnimating(w.ui) THEN w
    ELSE Let(move(w.e, w.ls, direction, TRUE, r1, r2), LAMBDA m :
         [w EXCEPT !.e = m.e, !.ls = m.ls, !.ret = m.ret, !.compacted = m.compacted,
                   !.spawned = m.spawned, !.calls = w.calls + 1,
                   !.ui = [w.ui EXCEPT !.isAnimating = TRUE,
                                       !.pending = IF m.ret.threw THEN "none"
                                                   ELSE IF m.ret.moved THEN "moved"
                                                   ELSE "shake"]])

\* togglePause()
togglePause(w) ==
    IF w.e.status = "playing"
    THEN [w EXCEPT !.e = [w.e EXCEPT !.status = "paused"],
                   !.ui = showOverlay(w.ui, "paused")]
    ELSE IF w.e.status = "paused"
    THEN [w EXCEPT !.e = [w.e EXCEPT !.status = "playing"],
                   !.ui = hideOverlay(w.ui)]
    ELSE w

\* restartGame(): hideOverlay, game.resetGame(); a new game has had no fanfare.
restartGame(w, r1, r2, r3, r4) ==
    Let(resetGame(w.e, r1, r2, r3, r4), LAMBDA m :
       [w EXCEPT !.e = m.e,
                 !.ret = [Constructed EXCEPT !.op = "reset", !.threw = m.threw],
                 !.compacted = m.e.grid, !.spawned = Null, !.calls = w.calls + 1,
                 !.ui = [hideOverlay(w.ui) EXCEPT !.fanfares = 0]])

\* handleKeyPress(event)
handleKeyPress(w, key, r1, r2, r3, r4) ==
    IF w.ui.isAnimating THEN w
    ELSE IF key \in ArrowKeys THEN moveAndUpdate(w, DirectionOf(key), r1, r2)
    ELSE IF key = "r" THEN restartGame(w, r1, r2, r3, r4)
    ELSE IF key = "Escape" THEN togglePause(w)
    ELSE w

\* checkGameEnd() up to its await: on a won game the fanfare is played and
\* animateVictory started; on a lost one the overlay is shown at once.
checkGameEnd(w) ==
    IF w.e.status = "won"
    THEN [w EXCEPT !.ui = [w.ui EXCEPT !.fanfares = w.ui.fanfares + 1,
                                       !.victory = w.ui.victory + 1]]
    ELSE IF w.e.status = "lost"
    THEN [w EXCEPT !.ui = showOverlay(w.ui, "gameover")]
    ELSE w

\* The rest of moveAndUpdate once its awaited animations are over:
\* checkGameEnd() is called and not awaited, then isAnimating is reset.
moveAndUpdateResumed(w) ==
    Let(IF w.ui.pending = "moved" THEN checkGameEnd(w) ELSE w, LAMBDA c :
        [c EXCEPT !.ui = [c.ui EXCEPT !.isAnimating = FALSE, !.pending = "none"]])

\* The rest of checkGameEnd once animateVictory resolved (after 2000 ms).
checkGameEndResumed(w) ==
    [w EXCEPT !.ui = [showOverlay(w.ui, "victory") EXCEPT !.victory = w.ui.victory - 1]]

\* A keydown event reaches handleKeyPress.
KeyPress ==
    /\ calls < MaxCalls
    /\ \E key \in Keys, r1, r2 \in RandomDraws :
         \E r3, r4 \in (IF key = "r" THEN RandomDraws ELSE {0}) :
           \E w \in {handleKeyPress(World, key, r1, r2, r3, r4)} : Apply(w)

\* The animations moveAndUpdate awaits are over.
AnimationsDone ==
    /\ ui.pending # "none"
    /\ Apply(moveAndUpdateResumed(World))

\* The promise of animateVictory resolves.
VictoryDone ==
    /\ ui.victory > 0
    /\ Apply(checkGameEndResumed(World))

\* A click on continue-button.
ClickContinue ==
    /\ ui.overlay = "victory"
    /\ Apply([World EXCEPT !.ui = hideOverlay(ui)])

\* A click on restart-button or restart-from-overlay.
ClickRestart ==
    /\ calls < MaxCalls
    /\ \E r1, r2, r3, r4 \in RandomDraws :
         \E w \in {restartGame(World, r1, r2, r3, r4)} : Apply(w)

NextUI == KeyPress \/ AnimationsDone \/ VictoryDone \/ ClickContinue \/ ClickRestart

\* Mid-game positions of the easy difficulty in front of the UI: one move from
\* the target, a crowded board, and an open board.
UIBoards ==
    {<<<<1024, 1024, 0, 0>>, <<2, 2, 0, 0>>, EmptyRow, EmptyRow>>,
     <<<<2, 4, 2, 4>>, <<4, 2, 4, 2>>, <<2, 4, 2, 4>>, <<4, 2, 4, 0>>>>,
     <<<<2, 2, 4, 0>>, <<0, 4, 4, 8>>, EmptyRow, EmptyRow>>}

InitUI ==
    \E b \in UIBoards, best \in StoredBest :
      \E e \in {MidEngine(GridOf(b), best)} :
        /\ Starts(e)
        /\ localStorage = [x \in Difficulties |-> IF x = "easy" THEN e.bestScore ELSE 0]
        /\ ret = [Constructed EXCEPT !.op = "position"]
        /\ compacted = e.grid
        /\ spawned = Null
        /\ calls = 0
        /\ ui = UIConstructed
        /\ demo = DemoConstructed(1)

SpecUI == InitUI /\ [][NextUI]_vars

----------------------------------------------------------------------------
(* DemoAI: the validity test, the evaluation of a move on a test engine, the  *)
(* play loop and its start, stop and pause.                                   *)

\* hasWon() of the engine
hasWon(e) ==
    Let(getDifficultyConfig(e.difficulty), LAMBDA cfg :
        \E r \in 0..(cfg.size - 1), c \in 0..(cfg.size - 1) :
            /\ HasRow(e.grid, r)
            /\ Truthy(Cell(e.grid, r, c))
            /\ Cell(e.grid, r, c).value >= cfg.target)

\* The test canMoveLeft/Right/Up/Down apply to a tile and the cell next to it:
\* the cell is free, or holds an equal tile that is not flagged justMerged.
CanEnter(current, neighbour) ==
    /\ Truthy(current)
    /\ \/ ~Truthy(neighbour)
       \/ neighbour.value = current.value /\ ~neighbour.justMerged

\* canMoveLeft(grid): size is grid.length; the inner loop looks at the
\* neighbouring cell only (it breaks after its first round).
canMoveLeft(g) ==
    \E row \in 0..(Len(g) - 1), col \in 1..(Len(g) - 1) :
        CanEnter(Cell(g, row, col), Cell(g, row, col - 1))

canMoveRight(g) ==
    \E row \in 0..(Len(g) - 1), col \in 0..(Len(g) - 2) :
        CanEnter(Cell(g, row, col), Cell(g, row, col + 1))

canMoveUp(g) ==
    \E col \in 0..(Len(g) - 1), row \in 1..(Len(g) - 1) :
        CanEnter(Cell(g, row, col), Cell(g, row - 1, col))

canMoveDown(g) ==
    \E col \in 0..(Len(g) - 1), row \in 0..(Len(g) - 2) :
        CanEnter(Cell(g, row, col), Cell(g, row + 1, col))

\* isValidMove(direction) of the first declaration of DemoAI.
isValidMoveFirst(g, direction) ==
    CASE direction = "left"  -> canMoveLeft(g)
      [] direction = "right" -> canMoveRight(g)
      [] direction = "up"    -> canMoveUp(g)
      [] direction = "down"  -> canMoveDown(g)
      [] OTHER -> FALSE

\* cloneGrid(grid): grid.map(row => [...row]) copies the rows; the cells of the
\* copy are the tile objects of the original.
cloneGrid(g) == [r \in DOMAIN g |-> [c \in DOMAIN g[r] |-> g[r][c]]]

\* new GameEngine(this.gameEngine.difficulty) with the cloned grid and the live
\* score: its best score is read from localStorage. Its own spawns, in the
\* constructor and in its move, land on grids only the test engine holds; the
\* draws behind them are taken as 0.
testEngine(e, ls) ==
    [construct(e.difficulty, ls[e.difficulty], 0, 0, 0, 0).e
        EXCEPT !.grid = cloneGrid(cloneGrid(e.grid)), !.score = e.score]

\* The live grid after the test engine ran move on the clone: clearPreviousFlags
\* wrote to the tile objects both grids hold; the rows processRow builds are
\* new objects and stay in the test engine.
SharedTiles(e) ==
    clearPreviousFlags(e.grid, getDifficultyConfig(e.difficulty).size).grid

\* The body evaluateMove, isDangerousMove and the second isValidMove share:
\* testEngine.move(direction, false). e and ls are the live engine and
\* localStorage afterwards.
evaluateMove(e, ls, direction) ==
    Let(move(testEngine(e, ls), ls, direction, FALSE, 0, 0), LAMBDA m :
        [e |-> [e EXCEPT !.grid = SharedTiles(e)],
         ls |-> m.ls,
         scoreGain |-> m.e.score - e.score,
         moved |-> ~m.ret.threw /\ m.ret.moved])

\* isValidMove(direction) of the second declaration: result && result.moved
isValidMoveSecond(e, ls, direction) == evaluateMove(e, ls, direction).moved

\* isValidMove as the declaration in force has it.
isValidMove(e, ls, dm, direction) ==
    IF dm.declaration = 1 THEN isValidMoveFirst(e.grid, direction)
    ELSE isValidMoveSecond(e, ls, direction)

\* The moves of S evaluated one after the other: the live engine and
\* localStorage afterwards, and the moves whose result had moved = true.
RECURSIVE EvaluateAll(_, _, _)
EvaluateAll(e, ls, S) ==
    IF S = {} THEN [e |-> e, ls |-> ls, moved |-> {}]
    ELSE Let(CHOOSE d \in S : TRUE, LAMBDA d :
         Let(evaluateMove(e, ls, d), LAMBDA s :
         Let(EvaluateAll(s.e, s.ls, S \ {d}), LAMBDA rest :
             [rest EXCEPT !.moved = IF s.moved THEN rest.moved \cup {d}
                                    ELSE rest.moved])))

\* getValidMoves(): the directions isValidMove accepts, and what testing them
\* did to the live engine and localStorage.
getValidMoves(e, ls, dm) ==
    IF dm.declaration = 1
    THEN [validMoves |-> {d \in Directions : isValidMoveFirst(e.grid, d)},
          e |-> e, ls |-> ls]
    ELSE Let(EvaluateAll(e, ls, Directions), LAMBDA after :
             [validMoves |-> after.moved, e |-> after.e, ls |-> after.ls])

\* selectBestMove(): none or the only valid move at once; otherwise every
\* strategy evaluates the valid moves and returns one of them (which one is
\* left open here: it depends on the strategy set and its weights).
selectBestMove(e, ls, dm) ==
    Let(getValidMoves(e, ls, dm), LAMBDA gv :
        IF Cardinality(gv.validMoves) <= 1 THEN gv
        ELSE Let(EvaluateAll(gv.e, gv.ls, gv.validMoves), LAMBDA after :
                 [validMoves |-> gv.validMoves, e |-> after.e, ls |-> after.ls]))

\* stopDemo()
stopDemo(dm) == [dm EXCEPT !.isRunning = FALSE, !.isPaused = FALSE]

\* playLoop leaves its while loop and returns (stopDemo after a lost game).
LoopReturns(w) ==
    [w EXCEPT !.demo = [(IF w.e.gameOver THEN stopDemo(w.demo) ELSE w.demo)
                           EXCEPT !.loops = w.demo.loops - 1]]

\* keyMap of playLoop
keyMap(direction) ==
    CASE direction = "left"  -> "ArrowLeft"
      [] direction = "right" -> "ArrowRight"
      [] direction = "up"    -> "ArrowUp"
      [] direction = "down"  -> "ArrowDown"

\* The move of one round of playLoop: through window.ui.handleKeyPress in the
\* first declaration, by gameEngine.move in the second; then the hasWon test.
LoopMove(w, bestMove, r1, r2) ==
    IF w.demo.declaration = 1
    THEN Let(handleKeyPress(w, keyMap(bestMove), r1, r2, 0, 0), LAMBDA k :
             IF hasWon(k.e) THEN LoopReturns([k EXCEPT !.demo = stopDemo(k.demo)])
             ELSE k)
    ELSE Let(move(w.e, w.ls, bestMove, TRUE, r1, r2), LAMBDA m :
         Let([w EXCEPT !.e = m.e, !.ls = m.ls, !.ret = m.ret, !.compacted = m.compacted,
                       !.spawned = m.spawned, !.calls = w.calls + 1], LAMBDA k :
             IF m.ret.threw THEN LoopReturns(k)
             ELSE IF m.ret.moved /\ hasWon(k.e)
             THEN LoopReturns([k EXCEPT !.demo = stopDemo(k.demo)])
             ELSE k))

\* One round of a running playLoop, from the test of its while condition to
\* its next sleep or its return: the worlds it can lead to, over the move
\* selected and the draws of the spawn.
LoopRound(w) ==
    IF ~w.demo.isRunning \/ w.e.gameOver THEN {LoopReturns(w)}
    ELSE IF w.demo.isPaused THEN {w}
    ELSE Let(selectBestMove(w.e, w.ls, w.demo), LAMBDA sel :
         Let([w EXCEPT !.e = sel.e, !.ls = sel.ls], LAMBDA s :
             IF sel.validMoves = {}
             THEN {LoopReturns([s EXCEPT !.demo = stopDemo(s.demo)])}
             ELSE {LoopMove(s, bestMove, r1, r2) :
                      bestMove \in sel.validMoves, r1 \in RandomDraws, r2 \in RandomDraws}))

\* playLoop(): a call runs its first round at once.
playLoop(w) ==
    LoopRound([w EXCEPT !.demo = [w.demo EXCEPT !.loops = w.demo.loops + 1]])

\* startDemo()
startDemo(w) ==
    IF w.demo.isRunning THEN {w}
    ELSE Let([w EXCEPT !.demo = [w.demo EXCEPT !.isRunning = TRUE, !.isPaused = FALSE]],
             LAMBDA s :
             IF s.e.gameOver THEN {[s EXCEPT !.demo = stopDemo(s.demo)]}
             ELSE playLoop(s))

\* togglePause() of DemoAI: resuming calls playLoop() again.
togglePauseDemo(w) ==
    IF ~w.demo.isRunning THEN {w}
    ELSE Let([w EXCEPT !.demo = [w.demo EXCEPT !.isPaused = ~w.demo.isPaused]], LAMBDA s :
             IF ~s.demo.isPaused THEN playLoop(s) ELSE {s})

\* The play loops followed at a time (calls of playLoop that have not returned).
MaxLoops == 2

\* demoAI.startDemo()
StartDemo ==
    /\ calls < MaxCalls
    /\ demo.loops < MaxLoops
    /\ \E w \in startDemo(World) : Apply(w)

\* demoAI.stopDemo()
StopDemo ==
    \E w \in {[World EXCEPT !.demo = stopDemo(demo)]} : Apply(w)

\* demoAI.togglePause()
TogglePauseDemo ==
    /\ calls < MaxCalls
    /\ demo.loops < MaxLoops
    /\ \E w \in togglePauseDemo(World) : Apply(w)

\* The sleep of a running playLoop ends and it goes through its next round.
LoopWakes ==
    /\ demo.loops > 0
    /\ calls < MaxCalls
    /\ \E w \in LoopRound(World) : Apply(w)

\* demoAI.evaluateMove(direction), as the strategies and isDangerousMove call it.
EvaluateMove ==
    /\ calls < MaxCalls
    /\ \E direction \in Directions :
         \E s \in {evaluateMove(Engine, localStorage, direction)} :
           Apply([World EXCEPT !.e = s.e, !.ls = s.ls, !.calls = calls + 1,
                               !.ret = [Constructed EXCEPT !.op = "evaluate",
                                                           !.dir = direction]])

NextDemo ==
    \/ StartDemo \/ StopDemo \/ TogglePauseDemo \/ LoopWakes \/ EvaluateMove
    \/ AnimationsDone \/ VictoryDone

\* The positions the demo player is started at: one move from the target, and
\* a crowded board.
DemoBoards ==
    {<<<<1024, 1024, 0, 0>>, <<2, 2, 0, 0>>, EmptyRow, EmptyRow>>,
     <<<<2, 4, 2, 4>>, <<4, 2, 4, 2>>, <<2, 4, 2, 4>>, <<4, 2, 4, 0>>>>}

\* The demo player in front of a game in progress, under either declaration.
InitDemo ==
    \E b \in DemoBoards, best \in StoredBest, declaration \in {1, 2} :
      \E e \in {MidEngine(GridOf(b), best)} :
        /\ Starts(e)
        /\ localStorage = [x \in Difficulties |-> IF x = "easy" THEN e.bestScore ELSE 0]
        /\ ret = [Constructed EXCEPT !.op = "position"]
        /\ compacted = e.grid
        /\ spawned = Null
        /\ calls = 0
        /\ ui = UIConstructed
        /\ demo = DemoConstructed(declaration)

SpecDemo == InitDemo /\ [][NextDemo]_vars

\* hasAvailableMoves() of the engine: a null cell, or an equal pair found by the
\* same scan as checkGameOver's.
hasAvailableMoves(g, n) == HasNullCell(g, n) \/ PairScan(g, n) = "pair"

----------------------------------------------------------------------------
(* C25 .. C30 *)

\* A step in which the UI handed an arrow key to game.move.
KeyMoved == calls' = calls + 1 /\ ret'.op = "move"

\* C25: while the game is paused (status "paused" after togglePause), no arrow
\* key changes the tiles on the board, the score, the move counter or the
\* merge counter.
C25_PausedBoardIsFrozen ==
    [][(status = "paused" /\ KeyMoved) =>
          /\ Pattern(grid') = Pattern(grid)
          /\ score' = score
          /\ moves' = moves
          /\ mergeCount' = mergeCount]_vars

\* C26: keyboard moves are serialized by the UI: game.move is invoked only when
\* no moveAndUpdate is in progress (isAnimating false, nothing awaited) and no
\* animation started by an earlier move is still running.
C26_MovesAreSerialized ==
    [][KeyMoved => (~ui.isAnimating /\ ui.pending = "none" /\ ui.victory = 0)]_vars

\* C30: the victory fanfare and overlay are triggered only by the move on which
\* a tile first reaches the target: a game sees at most one fanfare, and a
\* fanfare is played only after a move that turned the status to "won".
C30_VictoryAnnouncedOnce == ui.fanfares <= 1

\* game.move(d) would change the tiles on the board, for some outcome of the
\* random draws.
WouldChange(d) ==
    \E r1, r2 \in RandomDraws :
        Pattern(move(Engine, localStorage, d, TRUE, r1, r2).e.grid) # Pattern(grid)

\* C27: DemoAI's validity test agrees with the engine: isValidMove(d) is true
\* exactly when game.move(d) would change the grid, and getValidMoves() is empty
\* only when hasAvailableMoves() is false.
C27_ValidityAgreesWithEngine ==
    /\ \A d \in Directions :
          isValidMove(Engine, localStorage, demo, d) <=> WouldChange(d)
    /\ getValidMoves(Engine, localStorage, demo).validMoves = {}
          => ~hasAvailableMoves(grid, getDifficultyConfig(difficulty).size)

\* A step in which DemoAI evaluated a move on its test engine.
Evaluated == calls' = calls + 1 /\ ret'.op = "evaluate"

\* C28: evaluating a move on the test engine leaves the live game as it was:
\* the grid with its tiles' flags, the score and counters, the status, and the
\* best score stored for the difficulty.
C28_EvaluationLeavesLiveGame ==
    [][Evaluated =>
          /\ grid' = grid
          /\ score' = score /\ moves' = moves /\ mergeCount' = mergeCount
          /\ maxTile' = maxTile /\ status' = status
          /\ localStorage' = localStorage]_vars

\* C29: at most one playLoop is running at any time, however often the demo is
\* paused and resumed.
C29_OnePlayLoop == demo.loops <= 1

=============================================================================
